---- MODULE Spec2Model ----
(***************************************************************************)
(* A state-machine model of csv_to_rds/csv_to_rds.py: the CSV file         *)
(* validator, the DatabaseManager (connect / load_data_in_chunks / close)  *)
(* and the CSVtoRDSLoader facade (initialize / load_file / close) in Spec; *)
(* one ConfigManager whose load_database_config is called repeatedly in    *)
(* SpecConfig; the column labels of one dataset on their way from the file *)
(* to the insert statement in SpecColumns; one run of main() in SpecMain.   *)
(*                                                                         *)
(* Environment assumptions (the driver and the file system are not part of *)
(* the repository): a driver call either succeeds or raises; a batch whose *)
(* executemany or commit raises leaves none of its rows in the table;      *)
(* closing a cursor or a connection does not raise; the files do not       *)
(* change while one operation runs.  The program is single-threaded: while *)
(* a load is inside its for-loop nothing else runs.                        *)
(***************************************************************************)
EXTENDS Integers, Sequences, FiniteSets, TLC

\* ------------------------------------------------------------------ bounds
MaxRows == 3
MaxChunk == 2
MaxManagers == 2
MaxEngines == 2
MaxTable == 4
MaxLabels == 2
MaxChars == 3

\* ------------------------------------------------------------------ inputs
\* A path as the file system shows it: os.path.exists, os.path.getsize,
\* whether pd.read_csv(nrows=5) parses, whether the full pd.read_csv parses,
\* and the number of data rows the full parse yields.
File(exists, regular, size, head_ok, full_ok, rows) ==
    [exists |-> exists, regular |-> regular, size |-> size,
     head_ok |-> head_ok, full_ok |-> full_ok, rows |-> rows]

MissingFile == File(FALSE, FALSE, 0, FALSE, FALSE, 0)
DirectoryPath == File(TRUE, FALSE, 1, FALSE, FALSE, 0)
EmptyFile == File(TRUE, TRUE, 0, FALSE, FALSE, 0)
BadHeadFile == File(TRUE, TRUE, 1, FALSE, FALSE, 0)
BadTailFile == File(TRUE, TRUE, 1, TRUE, FALSE, 0)
DataFile(n) == File(TRUE, TRUE, 1, TRUE, TRUE, n)

Files ==
    {MissingFile, DirectoryPath, EmptyFile, BadHeadFile, BadTailFile}
        \cup {DataFile(n) : n \in 0..MaxRows}

\* load_file's default chunk_size.
DefaultChunkSize == 1000

\* chunk_size is an unchecked int parameter: 0 and negatives can be passed.
ChunkSizes == {-1, 0} \cup (1..MaxChunk)

\* The options load_database_config requires, in the order it tests them.
required_fields == <<"host", "port", "database", "username", "password">>

Fields == {required_fields[k] : k \in DOMAIN required_fields}

\* A text is the sequence of its characters.
\* The configuration source as the file system and the parser show it: the
\* file exists, it has an [RDS] section, and the options of that section
\* with their texts.
Source(exists, section, options) ==
    [exists |-> exists, section |-> section, options |-> options]

NoOptions == [f \in {} |-> <<>>]

ValidOptions ==
    [f \in Fields |->
        CASE f = "host" -> <<"h">>
          [] f = "port" -> <<"3", "3", "0", "6">>
          [] f = "database" -> <<"d">>
          [] f = "username" -> <<"u">>
          [] OTHER -> <<"p">>]

Without(options, f) == [g \in (DOMAIN options) \ {f} |-> options[g]]

With(options, f, text) == [options EXCEPT ![f] = text]

ValidSource == Source(TRUE, TRUE, ValidOptions)
MissingSource == Source(FALSE, FALSE, NoOptions)
NoSectionSource == Source(TRUE, FALSE, NoOptions)
BadPortSource == Source(TRUE, TRUE, With(ValidOptions, "port", <<"x">>))

\* What the configuration source holds when load_database_config reads it.
ConfigSources ==
    {ValidSource, MissingSource, NoSectionSource, BadPortSource}
        \cup {Source(TRUE, TRUE, Without(ValidOptions, f)) : f \in Fields}

\* The sources a standalone ConfigManager is made to read: the above, an
\* [RDS] section with no option or with one option only, and the valid
\* source with one option changed.
SourceVariants ==
    ConfigSources
        \cup {Source(TRUE, TRUE, NoOptions)}
        \cup {Source(TRUE, TRUE, [g \in {f} |-> ValidOptions[g]]) : f \in Fields}
        \cup {Source(TRUE, TRUE, With(ValidOptions, f, <<>>)) : f \in Fields}
        \cup {Source(TRUE, TRUE, With(ValidOptions, "host", <<"g">>))}
        \cup {Source(TRUE, TRUE, With(ValidOptions, "port", text)) :
                 text \in {<<"0">>, <<"-", "1">>, <<"7", "0", "0", "0", "0">>}}

\* The characters of a column label: an upper-case and a lower-case letter,
\* space, tab, '-' and '.'.
Alphabet == {"A", "a", " ", "\t", "-", "."}

Upper == {"A"}

\* The characters str.strip() removes.
Whitespace == {" ", "\t"}

\* The texts of at most n characters.
Texts(n) == UNION {[1..k -> Alphabet] : k \in 0..n}

\* The headers of at most k labels with at most n characters in all.
RECURSIVE Headers(_, _)
Headers(k, n) ==
    IF k = 0 THEN {<<>>}
    ELSE {<<>>} \cup UNION {{<<label>> \o h : h \in Headers(k - 1, n - Len(label))} :
                               label \in Texts(n)}

\* No configuration source was read.
NoSource == Source(FALSE, TRUE, NoOptions)

\* configparser.ConfigParser(): no section read yet.
ConfigParser == [has_rds |-> FALSE, rds |-> NoOptions]

\* Where DatabaseManager.connect stops: "ok", create_engine raises, or the
\* verification pymysql.connect raises.
ConnectStages == {"ok", "create_engine", "verify"}

\* Where _insert_dataframe stops: "ok", or the driver call that raises.
InsertStages == {"ok", "connect", "cursor", "execute", "commit"}

Policies == {"append", "replace"}

Min(a, b) == IF a < b THEN a ELSE b

\* ------------------------------------------------------------------- state
\* One CSVtoRDSLoader and the DatabaseManager it holds; the DatabaseManager
\* operations are those a caller applies to loader.db_manager.
VARIABLES
    config_manager,   \* CSVtoRDSLoader.config_manager is not None
    db_manager,       \* CSVtoRDSLoader.db_manager: 0 = None, else the k-th
                      \* DatabaseManager the loader has constructed
    _engine,          \* db_manager._engine: 0 = None, else the e-th engine
    engines,          \* number of engines create_engine has returned
    disposed,         \* per engine, how many times dispose() was called
    conns,            \* driver connections the last operation left open
    table,            \* rows committed to the destination table, in order:
                      \* k = row k of the dataset of the current / last load,
                      \* 0 = a row that was there before that load began
    pc,               \* "idle", or "loop" inside load_data_in_chunks' for
    ld,               \* the locals of the current / last load_data_in_chunks
    calls,            \* the chunks passed to _insert_dataframe by that load
    outcome,          \* what the last operation returned or raised
    source,           \* the configuration source the last operation read
    _config,          \* ConfigManager._config of a ConfigManager a caller
                      \* holds: the sections and options its parser has read
    header,           \* the column labels pd.read_csv found in the file
    columns           \* df.columns / data.columns as load_file goes on

vars ==
    <<config_manager, db_manager, _engine, engines, disposed,
      conns, table, pc, ld, calls, outcome, source, _config, header, columns>>

NoFile == MissingFile

\* op: the operation; kind: "ok" or the exception class; value: <<v>> when a
\* value is returned; stage: the step that raised; init: the operation ran
\* CSVtoRDSLoader.initialize; file: load_file's / validate_csv_file's path.
Outcome(op, kind, msg, value, stage, init, file) ==
    [op |-> op, kind |-> kind, msg |-> msg, value |-> value, stage |-> stage,
     init |-> init, file |-> file]

\* n: len(data); cs: chunk_size; i: the loop variable; base: the table's
\* length when the loop was entered; connected: the manager held an engine
\* when the operation was entered; after: the operation before this load was
\* a load_file that raised ValidationError; before: the table's length when
\* load_data_in_chunks was entered.
Frame(n, cs, i, total_rows, base, policy, connected, after, before) ==
    [n |-> n, cs |-> cs, i |-> i, total_rows |-> total_rows, base |-> base,
     policy |-> policy, connected |-> connected, after |-> after,
     before |-> before]

NoFrame == Frame(0, 1, 0, 0, 0, "append", FALSE, FALSE, 0)

Init ==
    /\ config_manager = FALSE
    /\ db_manager = 0
    /\ _engine = 0
    /\ engines = 0
    /\ disposed = [e \in 1..MaxEngines |-> 0]
    /\ conns = 0
    /\ table = <<>>
    /\ pc = "idle"
    /\ ld = NoFrame
    /\ calls = <<>>
    /\ outcome = Outcome("none", "none", "", <<>>, "ok", FALSE, NoFile)
    /\ source = NoSource
    /\ _config = ConfigParser
    /\ header = <<>>
    /\ columns = <<>>

\* ---------------------------------------------------------- pure functions
\* The size test made before the existence test.
validate_csv_file_size_first(f) ==
    IF f.size = 0 THEN <<FALSE, "File is empty">>
    ELSE IF ~f.exists THEN <<FALSE, "File not found">>
    ELSE IF ~f.head_ok THEN <<FALSE, "Invalid CSV format">>
    ELSE <<TRUE, "">>

\* validate_csv_file: <<is_valid, error_message>> (the path is left out of
\* the message).
validate_csv_file(f) ==
    IF ~f.exists THEN <<FALSE, "File not found">>
    ELSE IF f.size = 0 THEN <<FALSE, "File is empty">>
    ELSE IF ~f.head_ok THEN <<FALSE, "Invalid CSV format">>
    ELSE <<TRUE, "">>

\* int(text): <<TRUE, value>>, or <<FALSE, 0>> where Python raises
\* ValueError.
Digits == <<"0", "1", "2", "3", "4", "5", "6", "7", "8", "9">>

IsDigit(c) == \E d \in DOMAIN Digits : Digits[d] = c

DigitValue(c) == (CHOOSE d \in DOMAIN Digits : Digits[d] = c) - 1

RECURSIVE DigitsValue(_)
DigitsValue(text) ==
    IF text = <<>> THEN 0
    ELSE 10 * DigitsValue(SubSeq(text, 1, Len(text) - 1)) + DigitValue(text[Len(text)])

int(text) ==
    LET neg == text # <<>> /\ text[1] = "-"
        body == IF neg THEN Tail(text) ELSE text
    IN  IF body # <<>> /\ \A k \in DOMAIN body : IsDigit(body[k])
        THEN <<TRUE, IF neg THEN 0 - DigitsValue(body) ELSE DigitsValue(body)>>
        ELSE <<FALSE, 0>>

DatabaseConfig(host, port, database, username, password) ==
    [host |-> host, port |-> port, database |-> database,
     username |-> username, password |-> password]

\* self._config.read(path): the sections and options of the file are added
\* to those the parser already holds; an option read again takes the new text.
read(parser, src) ==
    IF src.exists /\ src.section
    THEN [has_rds |-> TRUE,
          rds |-> [f \in (DOMAIN parser.rds) \cup (DOMAIN src.options) |->
                      IF f \in DOMAIN src.options THEN src.options[f]
                      ELSE parser.rds[f]]]
    ELSE parser

\* ConfigManager.load_database_config on a ConfigManager whose _config is
\* parser while the file holds src: the kind of its result, the message,
\* the DatabaseConfig it returns and the _config it leaves.
ConfigManager_load_database_config(parser, src) ==
    LET p == read(parser, src)
        err(msg, left) ==
            [kind |-> "ConfigurationError", msg |-> msg, value |-> <<>>, parser |-> left]
    IN  IF ~src.exists THEN err("Configuration file not found", parser)
        ELSE IF ~p.has_rds THEN err("Error loading configuration", p)
        ELSE IF \E f \in Fields : f \notin DOMAIN p.rds
        THEN err("Error loading configuration", p)
        ELSE IF ~int(p.rds["port"])[1] THEN err("Invalid configuration value", p)
        ELSE [kind |-> "ok", msg |-> "",
              value |-> <<DatabaseConfig(p.rds["host"], int(p.rds["port"])[2],
                                         p.rds["database"], p.rds["username"],
                                         p.rds["password"])>>,
              parser |-> p]

\* ConfigManager.load_database_config on a fresh ConfigManager, as
\* CSVtoRDSLoader.initialize calls it: the kind of its result and the message.
load_database_config(cfg) ==
    LET r == ConfigManager_load_database_config(ConfigParser, cfg)
    IN  [kind |-> r.kind, msg |-> r.msg]

\* str.lower()
lower(text) == [k \in DOMAIN text |-> IF text[k] \in Upper THEN "a" ELSE text[k]]

\* str.replace(old, new) for one-character old and new.
replace(text, old, new) == [k \in DOMAIN text |-> IF text[k] = old THEN new ELSE text[k]]

\* str.strip(): the text without its leading and trailing whitespace.
strip(text) ==
    LET kept == {k \in DOMAIN text : text[k] \notin Whitespace}
    IN  IF kept = {} THEN <<>>
        ELSE SubSeq(text, CHOOSE k \in kept : \A j \in kept : k <= j,
                          CHOOSE k \in kept : \A j \in kept : k >= j)

\* A normalization that turns '.' into '-' after the '-' were replaced.
clean_column_names_dot_to_dash(cols) ==
    [i \in DOMAIN cols |->
        replace(replace(replace(lower(cols[i]), " ", "_"), "-", "_"), ".", "-")]

\* clean_column_names
clean_column_names(cols) ==
    [i \in DOMAIN cols |->
        replace(replace(replace(lower(cols[i]), " ", "_"), "-", "_"), ".", "_")]

\* load_data_in_chunks, line 237: str(col).strip().replace(' ', '_').lower()
\* for each col of data.columns (the labels are strings).
strip_column_names(cols) ==
    [i \in DOMAIN cols |-> lower(replace(strip(cols[i]), " ", "_"))]

\* range(0, n, cs) still yields the start offset i (cs # 0).
range_has(i, n, cs) == IF cs > 0 THEN i < n ELSE i > n

\* A slice one row too long: data.iloc[i:i + cs + 1].
chunk_overlapping(n, i, cs) == [k \in 1..(Min(i + cs + 1, n) - i) |-> i + k]

\* data.iloc[i:i + cs] of the dataset whose rows are 1..n, for cs >= 1.
chunk(n, i, cs) == [k \in 1..(Min(i + cs, n) - i) |-> i + k]

\* The running total overwritten instead of accumulated:
\* total_rows = rows_processed.
add_rows_overwrite(total_rows, c) == Len(c)

\* total_rows += rows_processed, with rows_processed = len(chunk).
add_rows(total_rows, c) == total_rows + Len(c)

\* The emptiness test left out.
df_empty_unchecked(f) == FALSE

\* df.empty after the full pd.read_csv.
df_empty(f) == f.rows = 0

\* The inputs a call reads; an input that is not read is held at one value.
\* load_file reads chunk_size only when the file reaches the chunked loader
\* and the loader has (or makes) a connection,
\* the configuration only when it runs initialize, and the connect outcome
\* only when the configuration loads.
Loadable(f) == validate_csv_file(f)[1] /\ f.full_ok /\ ~df_empty(f)
ChunkSizesRead(f) ==
    IF Loadable(f) /\ (db_manager = 0 \/ _engine # 0) THEN ChunkSizes ELSE {1}
ConfigsRead(f) == IF Loadable(f) /\ db_manager = 0 THEN ConfigSources ELSE {ValidSource}
StagesRead(cfg) ==
    IF load_database_config(cfg).kind = "ok" THEN ConnectStages ELSE {"ok"}
\* _create_table_if_needed can fail only when the policy makes it act.
SchemaOutcomesRead(policy) == IF policy = "replace" THEN BOOLEAN ELSE {TRUE}
\* load_data_in_chunks reads nothing of its arguments when the manager has no
\* engine, and neither data nor chunk_size when the schema step raises.
LoadInputsRead(schema_ok) ==
    IF _engine = 0 THEN {<<0, 1, "append">>}
    ELSE IF ~schema_ok THEN {<<0, 1, "replace">>}
    ELSE (0..MaxRows) \X ChunkSizes \X Policies

\* An operation outside the load path returns or raises: the locals of the
\* last load are gone.
Return(o) ==
    /\ outcome' = o
    /\ ld' = NoFrame
    /\ calls' = <<>>
    /\ conns' = 0
    /\ UNCHANGED <<table, pc>>

\* ----------------------------------------------------------- DatabaseManager
\* What connect does to the manager: the engine is stored as soon as
\* create_engine returns, before the verification connection is opened.
connect_effect(stage) ==
    IF stage = "create_engine"
    THEN UNCHANGED <<_engine, engines>>
    ELSE /\ engines' = engines + 1
         /\ _engine' = engines + 1

connect_result(op, stage, init, file) ==
    IF stage = "ok"
    THEN Outcome(op, "ok", "", <<>>, stage, init, file)
    ELSE Outcome(op, "DatabaseError", "Failed to connect to database",
                 <<>>, stage, init, file)

connect(stage) ==
    /\ pc = "idle"
    /\ db_manager # 0
    /\ stage # "create_engine" => engines < MaxEngines
    /\ connect_effect(stage)
    /\ Return(connect_result("connect", stage, FALSE, NoFile))
    /\ source' = NoSource
    /\ UNCHANGED <<config_manager, db_manager, disposed>>
    /\ UNCHANGED <<_config, header, columns>>

\* A close that disposes the engine and keeps the reference to it.
close_effect_keeps_engine ==
    IF _engine # 0
    THEN /\ disposed' = [disposed EXCEPT ![_engine] = @ + 1]
         /\ UNCHANGED _engine
    ELSE UNCHANGED <<_engine, disposed>>

\* What close does to the manager.
close_effect ==
    IF _engine # 0
    THEN /\ disposed' = [disposed EXCEPT ![_engine] = @ + 1]
         /\ _engine' = 0
    ELSE UNCHANGED <<_engine, disposed>>

\* close returns None; stage tells whether there was an engine to dispose.
close_result(op) ==
    Outcome(op, "ok", "", <<>>, IF _engine # 0 THEN "dispose" ELSE "noop", FALSE, NoFile)

close ==
    /\ pc = "idle"
    /\ db_manager # 0
    /\ close_effect
    /\ Return(close_result("close"))
    /\ source' = NoSource
    /\ UNCHANGED <<config_manager, db_manager, engines>>
    /\ UNCHANGED <<_config, header, columns>>

\* The rows of tbl seen as rows that were there before the next load.
Old(tbl) == [k \in 1..Len(tbl) |-> 0]

\* A schema step that leaves the table alone whatever the policy.
_create_table_if_needed_keeps_rows(policy) == Old(table)

\* _create_table_if_needed: the table as the schema step leaves it.
_create_table_if_needed(policy) == IF policy = "replace" THEN <<>> ELSE Old(table)

\* load_data_in_chunks from its entry to the first test of the for-loop, on
\* a manager whose engine is eng; o is the operation as the caller sees it.
\* Without an engine it raises before any of its locals exists.  The renaming
\* of data.columns at its line 237 changes no row and is not part of this
\* state.
Begin(o, eng, n, cs, policy, schema_ok, connected) ==
    LET after == outcome.op = "load_file" /\ outcome.kind = "ValidationError"
        fr(base) == Frame(n, cs, 0, 0, base, policy, connected, after, Len(table))
        err(msg, stage) == [o EXCEPT !.kind = "DatabaseError", !.msg = msg, !.stage = stage]
    IN  /\ conns' = 0
        /\ calls' = <<>>
        /\ IF eng = 0
           THEN /\ outcome' = err("Database connection not initialized", "engine")
                /\ ld' = NoFrame
                /\ UNCHANGED <<table, pc>>
           ELSE IF policy = "replace" /\ ~schema_ok
           THEN /\ outcome' = err("Failed to load data", "schema")
                /\ table' = Old(table)
                /\ ld' = fr(Len(table))
                /\ UNCHANGED pc
           ELSE IF cs = 0
           THEN /\ outcome' = err("Failed to load data", "range")
                /\ table' = _create_table_if_needed(policy)
                /\ ld' = fr(Len(table'))
                /\ UNCHANGED pc
           ELSE /\ outcome' = [o EXCEPT !.kind = "running"]
                /\ table' = _create_table_if_needed(policy)
                /\ ld' = fr(Len(table'))
                /\ pc' = "loop"

\* The destination table stays within the model's bound.
Fits(n, policy) ==
    IF policy = "replace" THEN n <= MaxTable ELSE Len(table) + n <= MaxTable

load_data_in_chunks(n, cs, policy, schema_ok) ==
    /\ pc = "idle"
    /\ db_manager # 0
    /\ schema_ok \in SchemaOutcomesRead(policy)
    /\ <<n, cs, policy>> \in LoadInputsRead(schema_ok)
    /\ Fits(n, policy)
    /\ Begin(Outcome("load_data_in_chunks", "ok", "", <<>>, "ok", FALSE, NoFile),
             _engine, n, cs, policy, schema_ok, _engine # 0)
    /\ source' = NoSource
    /\ UNCHANGED <<config_manager, db_manager, _engine, engines, disposed>>
    /\ UNCHANGED <<_config, header, columns>>

\* An insertion whose rows land although commit raised (an autocommit
\* connection).
_insert_dataframe_autocommit(c, stage) ==
    /\ table' = IF stage \in {"ok", "commit"} THEN table \o c ELSE table
    /\ conns' = IF stage \in {"cursor", "execute", "commit"} THEN conns + 1 ELSE conns

\* _insert_dataframe on chunk c: the rows are in the table once commit has
\* returned; a connection that was opened is closed only on the success path.
_insert_dataframe(c, stage) ==
    /\ table' = IF stage = "ok" THEN table \o c ELSE table
    /\ conns' = IF stage \in {"cursor", "execute", "commit"} THEN conns + 1 ELSE conns

\* An iteration that adds the batch to total_rows before it inserts it.
LoopStep_counts_first(stage) ==
    /\ pc = "loop"
    /\ range_has(ld.i, ld.n, ld.cs)
    /\ LET c == chunk(ld.n, ld.i, ld.cs)
       IN  /\ calls' = Append(calls, c)
           /\ _insert_dataframe(c, stage)
           /\ IF stage = "ok"
              THEN /\ ld' = [ld EXCEPT !.i = @ + ld.cs,
                                       !.total_rows = add_rows(@, c)]
                   /\ UNCHANGED <<pc, outcome>>
              ELSE /\ outcome' = [outcome EXCEPT !.kind = "DatabaseError",
                                                 !.msg = "Failed to load data",
                                                 !.stage = stage]
                   /\ pc' = "idle"
                   /\ ld' = [ld EXCEPT !.total_rows = add_rows(@, c)]
    /\ UNCHANGED <<config_manager, db_manager, _engine, engines, disposed>>
    /\ UNCHANGED <<source, _config, header, columns>>

\* One iteration of the for-loop of load_data_in_chunks.
LoopStep(stage) ==
    /\ pc = "loop"
    /\ range_has(ld.i, ld.n, ld.cs)
    /\ LET c == chunk(ld.n, ld.i, ld.cs)
       IN  /\ calls' = Append(calls, c)
           /\ _insert_dataframe(c, stage)
           /\ IF stage = "ok"
              THEN /\ ld' = [ld EXCEPT !.i = @ + ld.cs,
                                       !.total_rows = add_rows(@, c)]
                   /\ UNCHANGED <<pc, outcome>>
              ELSE /\ outcome' = [outcome EXCEPT !.kind = "DatabaseError",
                                                 !.msg = "Failed to load data",
                                                 !.stage = stage]
                   /\ pc' = "idle"
                   /\ UNCHANGED ld
    /\ UNCHANGED <<config_manager, db_manager, _engine, engines, disposed>>
    /\ UNCHANGED <<source, _config, header, columns>>

\* The for-loop is exhausted: return total_rows (load_file returns the same
\* value to its caller).
LoopExit ==
    /\ pc = "loop"
    /\ ~range_has(ld.i, ld.n, ld.cs)
    /\ outcome' = [outcome EXCEPT !.kind = "ok", !.value = <<ld.total_rows>>]
    /\ pc' = "idle"
    /\ UNCHANGED <<config_manager, db_manager, _engine, engines, disposed,
                   conns, table, ld, calls>>
    /\ UNCHANGED <<source, _config, header, columns>>

\* ------------------------------------------------------------ CSVtoRDSLoader
\* An initialize that constructs the DatabaseManager and connects it before
\* it loads the configuration.
initialize_effect_connects_first(cfg, stage) ==
    /\ config_manager' = TRUE
    /\ UNCHANGED disposed
    /\ db_manager' = db_manager + 1
    /\ IF stage = "create_engine"
       THEN _engine' = 0 /\ UNCHANGED engines
       ELSE connect_effect(stage)

\* What initialize does to the loader: a new ConfigManager, then (if the
\* configuration loads) a new DatabaseManager stored in db_manager, then its
\* connect.
initialize_effect(cfg, stage) ==
    /\ config_manager' = TRUE
    /\ UNCHANGED disposed
    /\ IF load_database_config(cfg).kind # "ok"
       THEN UNCHANGED <<db_manager, _engine, engines>>
       ELSE /\ db_manager' = db_manager + 1
            /\ IF stage = "create_engine"
               THEN _engine' = 0 /\ UNCHANGED engines
               ELSE connect_effect(stage)

initialize_result(op, cfg, stage, file) ==
    LET c == load_database_config(cfg)
    IN  IF c.kind # "ok"
        THEN Outcome(op, c.kind, c.msg, <<>>, "config", TRUE, file)
        ELSE connect_result(op, stage, TRUE, file)

\* The model's bounds on the objects initialize creates.
CanInit(cfg, stage) ==
    load_database_config(cfg).kind = "ok" =>
        /\ db_manager < MaxManagers
        /\ stage # "create_engine" => engines < MaxEngines

initialize(cfg, stage) ==
    /\ pc = "idle"
    /\ stage \in StagesRead(cfg)
    /\ CanInit(cfg, stage)
    /\ initialize_effect(cfg, stage)
    /\ Return(initialize_result("initialize", cfg, stage, NoFile))
    /\ source' = cfg
    /\ UNCHANGED <<_config, header, columns>>

\* An except clause that tears the connection down before re-raising.
load_file_except_closes ==
    /\ close_effect
    /\ UNCHANGED <<config_manager, db_manager, engines>>

\* load_file's except clause: log and re-raise; the loader is left as it is.
load_file_except ==
    UNCHANGED <<config_manager, db_manager, _engine, engines, disposed>>

\* load_file from its entry to the first test of the for-loop of the
\* load_data_in_chunks it delegates to.
load_file_call(f, cs, cfg, stage) ==
    LET v == validate_csv_file(f)
        err(kind, msg) == Outcome("load_file", kind, msg, <<>>, "file", FALSE, f)
    IN  /\ pc = "idle"
        /\ source' = IF Loadable(f) /\ db_manager = 0 THEN cfg ELSE NoSource
        /\ UNCHANGED <<_config, header, columns>>
        /\ IF ~v[1]
           THEN Return(err("ValidationError", v[2])) /\ load_file_except
           ELSE IF ~f.full_ok
           THEN Return(err("ParserError", "Error tokenizing data")) /\ load_file_except
           ELSE IF df_empty(f)
           THEN Return(err("ValidationError", "CSV file contains no data")) /\ load_file_except
           ELSE IF db_manager = 0
           THEN /\ CanInit(cfg, stage)
                /\ initialize_effect(cfg, stage)
                /\ IF initialize_result("load_file", cfg, stage, f).kind # "ok"
                   THEN Return(initialize_result("load_file", cfg, stage, f))
                   ELSE /\ Fits(f.rows, "append")
                        /\ Begin(initialize_result("load_file", cfg, stage, f),
                                 engines + 1, f.rows, cs, "append", TRUE, FALSE)
           ELSE /\ Fits(f.rows, "append")
                /\ Begin(Outcome("load_file", "ok", "", <<>>, "ok", FALSE, f),
                         _engine, f.rows, cs, "append", TRUE, _engine # 0)
                /\ UNCHANGED <<config_manager, db_manager, _engine, engines, disposed>>

\* load_file called with the inputs it reads: cfg and stage are read only
\* when load_file runs initialize.
load_file(f, cs, cfg, stage) ==
    /\ cs \in ChunkSizesRead(f)
    /\ cfg \in ConfigsRead(f)
    /\ stage \in (IF db_manager = 0 THEN StagesRead(cfg) ELSE {"ok"})
    /\ load_file_call(f, cs, cfg, stage)

\* CSVtoRDSLoader.close
loader_close ==
    /\ pc = "idle"
    /\ IF db_manager # 0
       THEN close_effect
       ELSE UNCHANGED <<_engine, disposed>>
    /\ Return(IF db_manager # 0 THEN close_result("loader_close")
              ELSE Outcome("loader_close", "ok", "", <<>>, "noop", FALSE, NoFile))
    /\ source' = NoSource
    /\ UNCHANGED <<config_manager, db_manager, engines>>
    /\ UNCHANGED <<_config, header, columns>>

\* A caller applies validate_csv_file to a path.
validate(f) ==
    /\ pc = "idle"
    /\ Return(Outcome("validate_csv_file", "ok", validate_csv_file(f)[2],
                      <<validate_csv_file(f)[1]>>, "ok", FALSE, f))
    /\ source' = NoSource
    /\ UNCHANGED <<config_manager, db_manager, _engine, engines, disposed>>
    /\ UNCHANGED <<_config, header, columns>>

Next ==
    \/ \E stage \in ConnectStages : connect(stage)
    \/ close
    \/ \E n \in 0..MaxRows, cs \in ChunkSizes, policy \in Policies, schema_ok \in BOOLEAN :
            load_data_in_chunks(n, cs, policy, schema_ok)
    \/ \E stage \in InsertStages : LoopStep(stage)
    \/ LoopExit
    \/ \E cfg \in ConfigSources : \E stage \in StagesRead(cfg) : initialize(cfg, stage)
    \/ \E f \in Files : \E cs \in ChunkSizesRead(f), cfg \in ConfigsRead(f) :
            \E stage \in ConnectStages : load_file(f, cs, cfg, stage)
    \/ loader_close
    \/ \E f \in Files : validate(f)

Spec == Init /\ [][Next]_vars

\* ------------------------------------------------------------ ConfigManager
\* A caller applies load_database_config to the ConfigManager it holds, at a
\* moment when the configuration file holds src.
load_config(src) ==
    /\ pc = "idle"
    /\ LET r == ConfigManager_load_database_config(_config, src)
       IN  /\ _config' = r.parser
           /\ outcome' = Outcome("load_database_config", r.kind, r.msg, r.value,
                                 IF r.kind = "ok" THEN "ok" ELSE "config", FALSE, NoFile)
    /\ source' = src
    /\ UNCHANGED <<config_manager, db_manager, _engine, engines, disposed,
                   conns, table, pc, ld, calls, header, columns>>

NextConfig == \E src \in SourceVariants : load_config(src)

\* One ConfigManager, its load_database_config called again and again while
\* the file changes between the calls.
SpecConfig == Init /\ [][NextConfig]_vars

\* --------------------------------------------------------------------- main
\* One run of main().  The operations of the loader are those of Spec, called
\* in main's order; pc is "exit" when the process has ended.  For op "main"
\* the outcome holds in kind what main's try block ended with, in value the
\* exit status, and in stage how far main has come: "usage" (wrong argument
\* count), "except" (sys.exit(1) raised in the except clause, the finally
\* clause still to run), "closed" (the finally clause has run).
ArgCounts == {2, 3, 4}

\* The process starts with a loader yet to be constructed; the destination
\* table may hold rows already.
InitMain ==
    /\ config_manager = FALSE
    /\ db_manager = 0
    /\ _engine = 0
    /\ engines = 0
    /\ disposed = [e \in 1..MaxEngines |-> 0]
    /\ conns = 0
    /\ table \in {[k \in 1..m |-> 0] : m \in 0..(MaxTable - MaxRows)}
    /\ pc = "idle"
    /\ ld = NoFrame
    /\ calls = <<>>
    /\ outcome = Outcome("none", "none", "", <<>>, "ok", FALSE, NoFile)
    /\ source = NoSource
    /\ _config = ConfigParser
    /\ header = <<>>
    /\ columns = <<>>

\* len(sys.argv) != 3: usage message and exit status 1; no loader exists.
main_usage(argc) ==
    /\ pc = "idle"
    /\ outcome.op = "none"
    /\ argc # 3
    /\ outcome' = Outcome("main", "SystemExit", "Usage", <<1>>, "usage", FALSE, NoFile)
    /\ pc' = "exit"
    /\ UNCHANGED <<config_manager, db_manager, _engine, engines, disposed, conns,
                   table, ld, calls, source, _config, header, columns>>

\* loader = CSVtoRDSLoader(); loader.initialize()
main_initialize(cfg, stage) ==
    /\ outcome.op = "none"
    /\ initialize(cfg, stage)

\* rows_loaded = loader.load_file(csv_path, table_name), up to the for-loop.
main_load_file(f) ==
    /\ outcome.op = "initialize"
    /\ outcome.kind = "ok"
    /\ load_file_call(f, DefaultChunkSize, ValidSource, "ok")

\* initialize or load_file has raised, or load_file has returned.
TryEnded ==
    /\ pc = "idle"
    /\ \/ outcome.op = "initialize" /\ outcome.kind # "ok"
       \/ outcome.op = "load_file"

\* An except clause that ends the process at once (os._exit(1)).
main_except_exits_at_once ==
    /\ TryEnded
    /\ outcome.kind # "ok"
    /\ outcome' = [outcome EXCEPT !.op = "main", !.value = <<1>>, !.stage = "except"]
    /\ pc' = "exit"
    /\ UNCHANGED <<config_manager, db_manager, _engine, engines, disposed, conns,
                   table, ld, calls, source, _config, header, columns>>

\* except Exception: log, sys.exit(1).  SystemExit is raised; the finally
\* clause runs before it leaves main.
main_except ==
    /\ TryEnded
    /\ outcome.kind # "ok"
    /\ outcome' = [outcome EXCEPT !.op = "main", !.value = <<1>>, !.stage = "except"]
    /\ UNCHANGED <<config_manager, db_manager, _engine, engines, disposed, conns,
                   table, pc, ld, calls, source, _config, header, columns>>

\* finally: if loader: loader.close(); then main returns (status 0) or the
\* pending SystemExit(1) ends the process.
main_finally ==
    /\ pc = "idle"
    /\ \/ TryEnded /\ outcome.kind = "ok"
       \/ outcome.op = "main" /\ outcome.stage = "except"
    /\ IF db_manager # 0
       THEN close_effect
       ELSE UNCHANGED <<_engine, disposed>>
    /\ outcome' = [outcome EXCEPT !.op = "main",
                                  !.value = IF outcome.op = "main" THEN @ ELSE <<0>>,
                                  !.stage = "closed"]
    /\ pc' = "exit"
    /\ UNCHANGED <<config_manager, db_manager, engines, conns,
                   table, ld, calls, source, _config, header, columns>>

NextMain ==
    \/ \E argc \in ArgCounts : main_usage(argc)
    \/ \E cfg \in ConfigSources : \E stage \in StagesRead(cfg) : main_initialize(cfg, stage)
    \/ \E f \in Files : main_load_file(f)
    \/ \E stage \in InsertStages : LoopStep(stage)
    \/ LoopExit
    \/ main_except
    \/ main_finally

SpecMain == InitMain /\ [][NextMain]_vars

\* ------------------------------------------------------------ column labels
\* The labels of one dataset from pd.read_csv to the insert statement.  pc is
\* "read_csv" when df.columns is what the file holds, "cleaned" after
\* clean_column_names, "cleaned_twice" when a caller has applied
\* clean_column_names to its own result, "insert" when load_data_in_chunks
\* has renamed data.columns and _insert_dataframe builds its statement.
InitColumns ==
    /\ config_manager = FALSE
    /\ db_manager = 0
    /\ _engine = 0
    /\ engines = 0
    /\ disposed = [e \in 1..MaxEngines |-> 0]
    /\ conns = 0
    /\ table = <<>>
    /\ pc = "read_csv"
    /\ ld = NoFrame
    /\ calls = <<>>
    /\ outcome = Outcome("none", "none", "", <<>>, "ok", FALSE, NoFile)
    /\ source = NoSource
    /\ _config = ConfigParser
    /\ header \in Headers(MaxLabels, MaxChars)
    /\ columns = header

\* df.columns = clean_column_names(df.columns) in load_file, or a caller's
\* second application.
clean_columns ==
    /\ pc \in {"read_csv", "cleaned"}
    /\ columns' = clean_column_names(columns)
    /\ pc' = IF pc = "read_csv" THEN "cleaned" ELSE "cleaned_twice"
    /\ UNCHANGED <<config_manager, db_manager, _engine, engines, disposed, conns,
                   table, ld, calls, outcome, source, _config, header>>

\* load_file hands df to load_data_in_chunks, which renames data.columns; the
\* insert statement is built from these names.
strip_columns ==
    /\ pc = "cleaned"
    /\ columns' = strip_column_names(columns)
    /\ pc' = "insert"
    /\ UNCHANGED <<config_manager, db_manager, _engine, engines, disposed, conns,
                   table, ld, calls, outcome, source, _config, header>>

NextColumns == clean_columns \/ strip_columns

SpecColumns == InitColumns /\ [][NextColumns]_vars

\* ------------------------------------------------------------------ claims
LoadOps == {"load_data_in_chunks", "load_file"}

\* The driver calls of _insert_dataframe that can raise.
InsertFailures == {"connect", "cursor", "execute", "commit"}

\* A load whose every batch insertion returned: it has reached its return.
Loaded == outcome.op \in LoadOps /\ outcome.kind = "ok"

Ceil(n, d) == (n + d - 1) \div d

RECURSIVE SumLen(_)
SumLen(cc) == IF cc = <<>> THEN 0 ELSE Len(cc[1]) + SumLen(Tail(cc))

\* C1: a load of n rows with chunk_size cs >= 1 and no insertion failure calls
\* the batch insertion exactly ceil(n / cs) times; call k gets the rows at
\* offsets (k-1)*cs .. in their original order; every batch has cs rows except
\* possibly the last; the batch sizes sum to n.
C1_BatchesPartitionTheDataset ==
    (Loaded /\ ld.cs >= 1) =>
        /\ Len(calls) = Ceil(ld.n, ld.cs)
        /\ \A k \in 1..Len(calls) :
              /\ \A j \in 1..Len(calls[k]) : calls[k][j] = (k - 1) * ld.cs + j
              /\ Len(calls[k]) >= 1
              /\ Len(calls[k]) <= ld.cs
              /\ k < Len(calls) => Len(calls[k]) = ld.cs
        /\ SumLen(calls) = ld.n

\* A finished load of 3 rows in chunks of 2: two batches, the last one short.
C1_Witness ==
    /\ Loaded
    /\ ld.n = 3
    /\ ld.cs = 2
    /\ calls = << <<1, 2>>, <<3>> >>

\* C2: with no insertion failure a load of n rows with chunk_size >= 1 returns
\* n, and load_file returns the row count of its file: the value
\* load_data_in_chunks computed.
C2_ReturnsRowCount ==
    (Loaded /\ ld.cs >= 1) =>
        /\ outcome.value = <<ld.n>>
        /\ outcome.value = <<ld.total_rows>>
        /\ outcome.op = "load_file" => outcome.value = <<outcome.file.rows>>

\* load_file has returned 3 for a 3-row file loaded in chunks of 2.
C2_Witness ==
    /\ Loaded
    /\ outcome.op = "load_file"
    /\ outcome.file = DataFile(3)
    /\ ld.cs = 2
    /\ outcome.value = <<3>>

\* The index of the batch the loop was inserting when it stopped.
BatchNo == ld.i \div ld.cs + 1

\* The rows this load has added to the table.
CommittedByLoad == SubSeq(table, ld.base + 1, Len(table))

\* An insertion of this load raised.
InsertFailed ==
    outcome.op \in LoadOps /\ outcome.kind = "DatabaseError" /\ outcome.stage \in InsertFailures

\* C3: when the insertion of batch k raises, the load signals DatabaseError;
\* the rows it has committed are exactly those of batches 1..k-1, the rows
\* that were in the table before are still there, batch k was the last
\* insertion attempted and the loop is over.
C3_FailedBatchAbortsLoad ==
    InsertFailed =>
        /\ pc = "idle"
        /\ outcome.value = <<>>
        /\ Len(calls) = BatchNo
        /\ CommittedByLoad = [j \in 1..((BatchNo - 1) * ld.cs) |-> j]
        /\ SubSeq(table, 1, ld.base) = [j \in 1..ld.base |-> 0]

\* Batch 2 of 3 failed at commit: row 1 is committed, rows 2 and 3 are not,
\* batch 3 was never passed to the insertion.
C3_Witness ==
    /\ InsertFailed
    /\ outcome.stage = "commit"
    /\ ld.n = 3
    /\ ld.cs = 1
    /\ BatchNo = 2
    /\ CommittedByLoad = <<1>>

\* C4: when the verification connection of connect cannot be opened, connect
\* signals DatabaseError and the manager holds no engine afterwards (so a
\* later load_data_in_chunks is rejected as not connected).
C4_FailedVerificationReleasesEngine ==
    (outcome.kind = "DatabaseError" /\ outcome.stage = "verify") => _engine = 0

\* C5: close never raises and leaves the manager without an engine, whatever
\* the state it is called in; while the manager has no engine
\* load_data_in_chunks raises DatabaseError and inserts nothing; only a
\* connect gives the manager an engine again.
C5_CloseIsIdempotent ==
    /\ [](outcome.op \in {"close", "loader_close"} =>
            /\ outcome.kind = "ok"
            /\ _engine = 0)
    /\ [][(pc = "idle" /\ db_manager # 0 /\ _engine = 0 /\ _engine' = 0
             /\ outcome'.op \in LoadOps)
          => /\ pc' = "idle"
             /\ calls' = <<>>
             /\ Len(table') = Len(table)
             /\ outcome'.kind \notin {"ok", "running"}
             /\ outcome'.op = "load_data_in_chunks" =>
                   /\ outcome'.kind = "DatabaseError"
                   /\ outcome'.stage = "engine"]_vars
    /\ [][(_engine = 0 /\ _engine' # 0)
          => (outcome'.op \in {"connect", "initialize"} \/ outcome'.init)]_vars

\* The loader is closed a second time: the engine was disposed by an earlier
\* close, and this close found nothing to dispose.
C5_Witness ==
    /\ outcome.op = "loader_close"
    /\ outcome.stage = "noop"
    /\ db_manager # 0
    /\ disposed[1] = 1
    /\ _engine = 0

\* C6: a load_file that reaches the chunked loader on a loader that was not
\* connected when it was called has run initialize first.
C6_LoadFileInitializesWhenNotConnected ==
    (outcome.op = "load_file" /\ outcome.stage # "file" /\ ~ld.connected) => outcome.init

\* C7: a load_file that raises ValidationError leaves the loader's manager,
\* its engine and the disposal counts as they were; the next load_file of a
\* valid file (chunk_size >= 1) on the connected loader returns the file's
\* row count unless an insertion raises.
C7_ValidationErrorKeepsConnection ==
    /\ [][(outcome'.op = "load_file" /\ outcome'.kind = "ValidationError")
          => UNCHANGED <<config_manager, db_manager, _engine, engines, disposed>>]_vars
    /\ [](( /\ outcome.op = "load_file"
            /\ pc = "idle"
            /\ ld.after
            /\ ld.connected
            /\ ld.cs >= 1)
          => \/ outcome.kind = "ok" /\ outcome.value = <<outcome.file.rows>>
             \/ InsertFailed)

\* After a load_file that raised ValidationError, a load_file of a 2-row file
\* on the same, still connected loader has returned 2.
C7_Witness ==
    /\ outcome.op = "load_file"
    /\ outcome.kind = "ok"
    /\ ld.after
    /\ ld.connected
    /\ _engine # 0
    /\ outcome.file = DataFile(2)
    /\ outcome.value = <<2>>

\* C8: every failure load_file signals is a ConfigurationError, a
\* ValidationError or a DatabaseError; a file whose full parse fails after the
\* validator's bounded pre-check passed gives ValidationError.
C8_LoadFileErrorKinds ==
    outcome.op = "load_file" =>
        /\ outcome.kind \in {"ok", "running", "ConfigurationError", "ValidationError",
                             "DatabaseError"}
        /\ (validate_csv_file(outcome.file)[1] /\ ~outcome.file.full_ok)
              => outcome.kind = "ValidationError"

\* C9: validate_csv_file returns (True, "") exactly when the path exists, the
\* file is not of length zero and the bounded read parses; otherwise False
\* with 'File not found' for a missing path, else 'File is empty' for length
\* zero, else 'Invalid CSV format'; it never raises.
C9_ValidatorResult ==
    outcome.op = "validate_csv_file" =>
        LET f == outcome.file
            good == f.exists /\ f.size # 0 /\ f.head_ok
        IN  /\ outcome.kind = "ok"
            /\ outcome.value \in {<<TRUE>>, <<FALSE>>}
            /\ outcome.value = <<TRUE>> <=> good
            /\ good => outcome.msg = ""
            /\ ~f.exists => outcome.msg = "File not found"
            /\ (f.exists /\ f.size = 0) => outcome.msg = "File is empty"
            /\ (f.exists /\ f.size # 0 /\ ~f.head_ok) => outcome.msg = "Invalid CSV format"

\* The validator was applied to a path that does not exist (so that it has
\* no length and does not parse either) and answered 'File not found'.
C9_Witness ==
    /\ outcome.op = "validate_csv_file"
    /\ outcome.file = MissingFile
    /\ outcome.value = <<FALSE>>
    /\ outcome.msg = "File not found"

\* C10: load_file of a file the validator rejects raises ValidationError with
\* the validator's message; load_file of a file that passes the validator and
\* parses to zero data rows raises ValidationError('CSV file contains no
\* data'); in both cases no table is created and no batch is inserted.
C10_RejectedFilesNeverReachTheTable ==
    /\ [](outcome.op = "load_file" =>
            LET f == outcome.file
                v == validate_csv_file(f)
            IN  /\ ~v[1] =>
                      /\ outcome.kind = "ValidationError"
                      /\ outcome.msg = v[2]
                      /\ outcome.msg \in {"File not found", "File is empty",
                                          "Invalid CSV format"}
                      /\ pc = "idle"
                      /\ calls = <<>>
                /\ (v[1] /\ f.full_ok /\ f.rows = 0) =>
                      /\ outcome.kind = "ValidationError"
                      /\ outcome.msg = "CSV file contains no data"
                      /\ pc = "idle"
                      /\ calls = <<>>)
    /\ [][(outcome'.op = "load_file" /\ outcome'.kind = "ValidationError")
          => (table' = table /\ conns' = 0 /\ pc' = "idle")]_vars

\* A header-only file was given to a connected loader whose table holds rows:
\* load_file raised 'CSV file contains no data'.
C10_Witness ==
    /\ outcome.op = "load_file"
    /\ outcome.file = DataFile(0)
    /\ outcome.kind = "ValidationError"
    /\ outcome.msg = "CSV file contains no data"
    /\ _engine # 0
    /\ Len(table) > 0


\* The text Python's int() accepts (over the characters of the model).
IntegerText(text) ==
    LET body == IF text # <<>> /\ text[1] = "-" THEN Tail(text) ELSE text
    IN  /\ body # <<>>
        /\ \A k \in DOMAIN body : body[k] \in {Digits[d] : d \in DOMAIN Digits}

\* The source is missing, has no RDS section, lacks one of the five options,
\* or its port is no integer.
Defective(src) ==
    \/ ~src.exists
    \/ ~src.section
    \/ \E f \in Fields : f \notin DOMAIN src.options
    \/ ~IntegerText(src.options["port"])

\* C11: load_database_config, as initialize calls it, raises
\* ConfigurationError exactly when the source file is missing, the RDS section
\* is absent, one of host/port/database/username/password is absent or the
\* port is no integer; and an operation that ends with that error has
\* constructed no DatabaseManager, created no engine, disposed none and opened
\* no driver connection.
C11_ConfigErrorsBeforeAnyConnection ==
    /\ [](outcome.init =>
            /\ outcome.kind = "ConfigurationError" <=> Defective(source)
            /\ outcome.kind = "ConfigurationError" => outcome.stage = "config")
    /\ [][outcome'.kind = "ConfigurationError" =>
            /\ UNCHANGED <<db_manager, _engine, engines, disposed>>
            /\ conns' = 0]_vars

\* A connected loader is initialized again from a source without the port:
\* ConfigurationError, and the engine it held is still the only one.
C11_Witness ==
    /\ outcome.op = "initialize"
    /\ outcome.kind = "ConfigurationError"
    /\ source = Source(TRUE, TRUE, Without(ValidOptions, "port"))
    /\ db_manager = 1
    /\ _engine = 1
    /\ engines = 1

\* C12: every load_database_config call on one ConfigManager depends on the
\* source as it is at that call only: an option absent from the source gives
\* ConfigurationError, and a returned descriptor has the five values of the
\* source.
C12_OutcomeDependsOnCurrentSourceOnly ==
    outcome.op = "load_database_config" =>
        /\ (\E f \in Fields : f \notin DOMAIN source.options) =>
                outcome.kind = "ConfigurationError"
        /\ outcome.kind = "ok" =>
                /\ outcome.value[1].host = source.options["host"]
                /\ <<TRUE, outcome.value[1].port>> = int(source.options["port"])
                /\ outcome.value[1].database = source.options["database"]
                /\ outcome.value[1].username = source.options["username"]
                /\ outcome.value[1].password = source.options["password"]

\* C14: no operation leaves a driver connection open, whether it returns or
\* raises.
C14_NoConnectionLeaked == conns = 0

\* The load has passed the engine test and the schema step.
PastSchema ==
    /\ outcome.op \in LoadOps
    /\ \/ outcome.kind \in {"running", "ok"}
       \/ outcome.kind = "DatabaseError" /\ outcome.stage \in InsertFailures \cup {"range"}

\* C15: under 'replace' the table is empty when the first batch insertion
\* begins and no row that was there before the call is there afterwards;
\* under 'append' the rows that were there are all kept; load_file loads
\* with 'append'.
C15_ReplaceEmptiesAppendKeeps ==
    /\ [](PastSchema =>
            /\ IF ld.policy = "replace"
               THEN /\ ld.base = 0
                    /\ \A k \in 1..Len(table) : table[k] # 0
               ELSE /\ ld.base = ld.before
                    /\ Len(table) >= ld.before
                    /\ \A k \in 1..ld.before : table[k] = 0
            /\ outcome.op = "load_file" => ld.policy = "append")
    /\ [][(pc = "idle" /\ PastSchema') =>
            /\ ld'.before = Len(table)
            /\ calls' = <<>>
            /\ table' = IF ld'.policy = "replace" THEN <<>> ELSE Old(table)]_vars

\* A 'replace' load of 3 rows into a table that held 2 rows: the table holds
\* the 3 new rows only.
C15_Witness ==
    /\ Loaded
    /\ ld.policy = "replace"
    /\ ld.before = 2
    /\ table = <<1, 2, 3>>

\* C16: inside the loop total_rows is the number of rows of the batches
\* inserted so far, which are the rows this load has committed; after a
\* failed insertion it is the number of rows of the batches before the failed
\* one; and a load that raises DatabaseError returns no value.
C16_TotalCountsReturnedBatchesOnly ==
    /\ pc = "loop" =>
        /\ ld.total_rows = SumLen(calls)
        /\ ld.total_rows = Len(CommittedByLoad)
    /\ InsertFailed =>
        /\ ld.total_rows = SumLen(SubSeq(calls, 1, Len(calls) - 1))
        /\ ld.total_rows = Len(CommittedByLoad)
    /\ (outcome.op \in LoadOps /\ outcome.kind = "DatabaseError") => outcome.value = <<>>

\* Batch 2 of a load of 3 rows in chunks of 2 failed at execute: the total
\* is the 2 rows of batch 1, and nothing is returned.
C16_Witness ==
    /\ InsertFailed
    /\ outcome.stage = "execute"
    /\ ld.n = 3
    /\ ld.cs = 2
    /\ calls = << <<1, 2>>, <<3>> >>
    /\ ld.total_rows = 2
    /\ outcome.value = <<>>

\* C17: every DatabaseConfig load_database_config returns has non-empty host,
\* database, username and password and a port in 1..65535.
C17_DescriptorInvariant ==
    (outcome.op = "load_database_config" /\ outcome.kind = "ok") =>
        /\ outcome.value[1].host # <<>>
        /\ outcome.value[1].database # <<>>
        /\ outcome.value[1].username # <<>>
        /\ outcome.value[1].password # <<>>
        /\ outcome.value[1].port \in 1..65535


\* C13: clean_column_names(x) has the length of x, its element i is what
\* clean_column_names makes of x[i] alone, and applying clean_column_names to
\* its own result changes nothing.
C13_CleanIsPositionalAndIdempotent ==
    /\ pc = "cleaned" =>
        /\ Len(columns) = Len(header)
        /\ \A i \in 1..Len(header) :
              columns[i] = clean_column_names(<<header[i]>>)[1]
    /\ pc = "cleaned_twice" => columns = clean_column_names(header)

\* Two labels, cleaned twice: "A." and "-" have become "a_" and "_".
C13_Witness ==
    /\ pc = "cleaned_twice"
    /\ header = << <<"A", ".">>, <<"-">> >>
    /\ columns = << <<"a", "_">>, <<"_">> >>

\* C18: after a close on the first DatabaseManager, every engine its connect
\* calls have created has been disposed exactly once.
C18_EveryEngineDisposedOnce ==
    (outcome.op = "close" /\ db_manager = 1) =>
        \A e \in 1..engines : disposed[e] = 1

\* C19: validate_csv_file answers 'File not found' for every path that is
\* not a regular file.
C19_NonRegularPathIsNotFound ==
    (outcome.op = "validate_csv_file" /\ ~outcome.file.regular) =>
        /\ outcome.value = <<FALSE>>
        /\ outcome.msg = "File not found"

\* C20: a column name in the insert statement of a load_file holds no
\* upper-case letter, no whitespace, no '-' and no '.'.
C20_InsertedNamesHaveColumnNameShape ==
    pc = "insert" =>
        \A i \in 1..Len(columns) : \A k \in 1..Len(columns[i]) :
            columns[i][k] \notin Upper \cup Whitespace \cup {"-", "."}


\* C22: a load of n >= 1 rows on a connected manager that returns has
\* committed the n rows and returns n, whatever chunk_size is.
C22_NeverReturnsShort ==
    (Loaded /\ ld.connected /\ ld.n >= 1) =>
        /\ outcome.value = <<ld.n>>
        /\ CommittedByLoad = [j \in 1..ld.n |-> j]


\* C21: the process ends with status 0 when load_file returned and with
\* status 1 when initialize or load_file raised; and whenever it ends after
\* the loader was constructed, the step that ends it is the finally clause,
\* which has called loader.close(): the manager, if there is one, holds no
\* engine any more and the engine it held was disposed in that step.
C21_ExitStatusAndTeardown ==
    /\ [](pc = "exit" =>
            /\ outcome.op = "main"
            /\ outcome.value = IF outcome.kind = "ok" THEN <<0>> ELSE <<1>>
            /\ outcome.kind = "ok" => CommittedByLoad = [j \in 1..ld.n |-> j]
            /\ outcome.stage # "usage" => outcome.stage = "closed" /\ _engine = 0)
    /\ [][(pc # "exit" /\ pc' = "exit" /\ outcome'.stage # "usage") =>
            /\ _engine' = 0
            /\ \A e \in 1..MaxEngines :
                  disposed'[e] = IF e = _engine THEN disposed[e] + 1 ELSE disposed[e]]_vars

\* The insertion of the 2 rows of the file failed: the table holds the row
\* it held before, the exit status is 1 and the engine was disposed.
C21_Witness ==
    /\ pc = "exit"
    /\ outcome.kind = "DatabaseError"
    /\ outcome.value = <<1>>
    /\ outcome.stage = "closed"
    /\ outcome.file = DataFile(2)
    /\ calls = << <<1, 2>> >>
    /\ table = <<0>>
    /\ disposed[1] = 1
    /\ _engine = 0

====
